---- MODULE Spec2Model ----
(***************************************************************************)
(* Voice-session tracker of AlbionBot: the VoiceTracker cog (src/bot.py)   *)
(* on top of the VoiceDatabase session store (src/database.py).            *)
(*                                                                         *)
(* Every database method is an `async def` without a suspension point      *)
(* (peewee calls are synchronous), so a handler that awaits them runs to   *)
(* completion without yielding to the event loop: one action per handler.  *)
(***************************************************************************)
EXTENDS Integers, Sequences, FiniteSets, TLC

(* ------------------------------ bounds -------------------------------- *)
MaxTime == 4          \* the clock runs over 0..MaxTime
DayLen == 3           \* clock ticks per calendar day
MaxEvents == 3        \* gateway events and clock steps in one behaviour
MaxSnapshotId == 2    \* session ids of the stores and snapshots the import meets
MaxStops == 1         \* crashes of the process, each followed by a restart
MaxCloseCalls == 2    \* direct calls of db.end_session in one behaviour

(* --------------------------- program constants ------------------------ *)
RetentionDays == 30   \* daily_reset: cleanup_old_data(30)

(* ------------------------------ universe ------------------------------ *)
Users == {"u1", "u2"}
Guilds == {"g1", "g2"}
\* A member is a (user, guild) pair; u1 is a member of both guilds. The cog
\* tracks every member, bot accounts included, and a bot account is
\* connected in several guilds at once; the events of two guilds arrive in
\* any order.
Members == {<<"u1", "g1">>, <<"u1", "g2">>, <<"u2", "g1">>}
\* The order in which track_existing_users meets the members:
\* for guild in bot.guilds / for channel / for member.
MemberOrder == << <<"u1", "g1">>, <<"u2", "g1">>, <<"u1", "g2">> >>
NoChannel == "none"
ChannelNames == {"c1", "c2"}
Statuses == {"online", "idle", "dnd", "invisible", "offline"}
AwayStatuses == {"invisible", "idle", "offline"}
\* The presence statuses the gateway reports in the behaviours explored: one
\* that is_user_active accepts, one it rejects, and a second accepted one.
SeenStatuses == {"online", "idle", "dnd"}
\* SQL NULL: a value no instant and no duration takes
NULL == 0 - 1000
\* The local time of day at which the daily_reset loop fires. The loop is
\* declared with the naive time(0, 0), which discord.ext.tasks reads as UTC,
\* while every date in the store comes from the naive local datetime.now():
\* 0 on a host whose zone is UTC, 1 on a host one tick east of it.
UtcOffsets == {0, 1}

\* member.voice: channel = NoChannel stands for `member.voice is None`
NoVoice == [channel |-> NoChannel, self_mute |-> FALSE, mute |-> FALSE]
VoiceStates ==
  {NoVoice} \cup [channel : ChannelNames, self_mute : BOOLEAN, mute : BOOLEAN]

\* The voice states one gateway event can lead to from v: a join (self-muted
\* or not), a leave, a move to the other channel, or one mute flag toggled.
VoiceChanges(v) ==
  IF v.channel = NoChannel
    THEN {[channel |-> "c1", self_mute |-> b, mute |-> FALSE] : b \in BOOLEAN}
    ELSE {NoVoice,
          [v EXCEPT !.channel = IF v.channel = "c1" THEN "c2" ELSE "c1"],
          [v EXCEPT !.self_mute = ~v.self_mute],
          [v EXCEPT !.mute = ~v.mute]}

VARIABLES
  now,               \* datetime.now(), in ticks
  utc_offset,        \* local time of day of UTC midnight on this host
  phase,             \* "running": the cog exists; "down": the process has
                     \* died; "stopped": it has shut down cleanly
  resetDue,          \* the daily_reset loop is due (midnight was reached)
  voice,             \* gateway: member -> voice state
  status,            \* gateway: member -> presence status
  VoiceSession,      \* the voice_session table: a set of rows
  store_ok,          \* voice_activity.db takes writes (no lock, no I/O error)
  backup,            \* rows of the latest voice_backup_*.json (empty: none)
  active_sessions,   \* VoiceTracker.active_sessions: user -> session id
  inactive_sessions, \* VoiceTracker.inactive_sessions: user -> session id
  nEvents,           \* gateway events and clock steps so far
  nStops,            \* terminations so far (crashes and the clean unload)
  lastBegin,         \* history: member -> last begin signal and its repeat count
  connected_secs,    \* history: member -> ticks spent connected while tracked
  scen,              \* history: member -> progress of the connect/mute/leave scenario
  classified,        \* history: the answers of is_user_active, <<member, answer>>
  afterReset,        \* history: member -> connected at the last daily_reset of
                     \* this run, and no event of its user since
  backup_readable,   \* the latest voice_backup_*.json parses as JSON
  end_calls,         \* history: the direct calls of db.end_session, in order
  run_first_id       \* history: the first session id this run of the process
                     \* can create

vars == <<now, utc_offset, phase, resetDue, voice, status, VoiceSession, backup,
          active_sessions, inactive_sessions, nEvents, nStops,
          lastBegin, connected_secs, scen, store_ok, classified,
          afterReset, backup_readable, end_calls, run_first_id>>

(* ------------------------------ helpers ------------------------------- *)
Max(S) == CHOOSE x \in S : \A y \in S : y <= x
Min(S) == CHOOSE x \in S : \A y \in S : x <= y

RECURSIVE SumDur(_)
\* SQL SUM(duration_seconds): NULL durations are skipped
SumDur(rows) ==
  IF rows = {} THEN 0
  ELSE LET r == CHOOSE x \in rows : TRUE
       IN (IF r.duration_seconds = NULL THEN 0 ELSE r.duration_seconds)
          + SumDur(rows \ {r})

\* a pop that leaves the entry in the dict
PopKeeps(f, k) == f
\* dict.pop(key)
Pop(f, k) == [x \in (DOMAIN f) \ {k} |-> f[x]]
\* an index that forgets what is put into it
PutDrops(f, k, v) == f
\* dict[key] = value
Put(f, k, v) == [x \in (DOMAIN f) \cup {k} |-> IF x = k THEN v ELSE f[x]]
EmptyMap == [x \in {} |-> 0]

\* strftime("%Y-%m-%d") / fn.Date(start_time): the calendar day of an instant
Date(t) == t \div DayLen
\* the local time of day of an instant
TimeOfDay(t) == t % DayLen

(* --------------------------- VoiceDatabase ---------------------------- *)
\* AutoField (INTEGER PRIMARY KEY): the next rowid is max(rowid) + 1
NextId(db) == IF db = {} THEN 1 ELSE Max({s.id : s \in db}) + 1

HasId(db, sid) == \E s \in db : s.id = sid

\* VoiceDatabase.start_session; is_live is never passed by the tracker and
\* stays False, so the stream-bonus branch of end_session is never taken.
start_session(db, u, g, c, isActive, t) ==
  db \cup {[id |-> NextId(db), user |-> u, guild |-> g, channel |-> c,
            start_time |-> t, end_time |-> NULL, duration_seconds |-> NULL,
            is_active |-> isActive]}

\* end_session with the duration taken as the end instant, start_time not
\* subtracted
end_session_from_epoch(db, sid, t) ==
  {IF s.id = sid
     THEN [s EXCEPT !.end_time = t, !.duration_seconds = t]
     ELSE s : s \in db}

\* VoiceDatabase.end_session on a row that exists (get_by_id raises otherwise)
end_session(db, sid, t) ==
  {IF s.id = sid
     THEN [s EXCEPT !.end_time = t, !.duration_seconds = t - s.start_time]
     ELSE s : s \in db}

\* VoiceDatabase.get_user_time_for_date
get_user_time_for_date(db, u, g, date, isActive) ==
  SumDur({s \in db : s.user = u /\ s.guild = g /\ Date(s.start_time) = date
                     /\ s.is_active = isActive})

\* VoiceDatabase.get_active_session_time
get_active_session_time(db, sid, t) ==
  IF \E s \in db : s.id = sid /\ s.end_time = NULL
    THEN t - (CHOOSE s \in db : s.id = sid /\ s.end_time = NULL).start_time
    ELSE 0

\* VoiceDatabase.cleanup_old_data
cleanup_old_data(db, days, t) ==
  {s \in db : ~(Date(s.start_time) < Date(t) - days)}

\* an import in which the snapshot's row replaces the store's row of that id
import_snapshot_wins(db, rows) ==
  {s \in db : ~\E r \in rows : r.id = s.id} \cup rows

\* VoiceDatabase.import_from_json: rows whose id is already present are
\* skipped. The snapshot carries the user, guild and channel of each of its
\* sessions, upserted first, so the lookups of lines 346-348 succeed.
RECURSIVE import_from_json(_, _)
import_from_json(db, rows) ==
  IF rows = {} THEN db
  ELSE LET r == CHOOSE x \in rows : \A y \in rows : x.id <= y.id
       IN import_from_json(IF HasId(db, r.id) THEN db ELSE db \cup {r},
                           rows \ {r})

\* VoiceDatabase.export_to_json: every row of voice_session
export_to_json(db) == db

(* ---------------------------- VoiceTracker ---------------------------- *)
\* The tracker's state while a handler runs: the table, the two maps,
\* whether an exception has ended the handler, and whether the store takes
\* writes (a write to a store that does not raises peewee.OperationalError).
Tracker(db, act, inact) ==
  [db |-> db, act |-> act, inact |-> inact, err |-> FALSE, ok |-> store_ok]

\* an is_user_active that does not look at the server mute
is_user_active_self_mute_only(v, s) ==
  IF v.channel = NoChannel THEN FALSE
  ELSE IF v.self_mute THEN FALSE
  ELSE s \notin AwayStatuses

\* VoiceTracker.is_user_active
is_user_active(v, s) ==
  IF v.channel = NoChannel THEN FALSE
  ELSE IF v.self_mute \/ v.mute THEN FALSE
  ELSE s \notin AwayStatuses

\* VoiceTracker.end_active_session
end_active_session(st, u, t) ==
  IF st.err \/ u \notin DOMAIN st.act THEN st
  ELSE LET sid == st.act[u]
       IN IF HasId(st.db, sid) /\ st.ok
            THEN [st EXCEPT !.act = Pop(st.act, u),
                            !.db = end_session(st.db, sid, t)]
            ELSE [st EXCEPT !.act = Pop(st.act, u), !.err = TRUE]

\* VoiceTracker.end_inactive_session
end_inactive_session(st, u, t) ==
  IF st.err \/ u \notin DOMAIN st.inact THEN st
  ELSE LET sid == st.inact[u]
       IN IF HasId(st.db, sid) /\ st.ok
            THEN [st EXCEPT !.inact = Pop(st.inact, u),
                            !.db = end_session(st.db, sid, t)]
            ELSE [st EXCEPT !.inact = Pop(st.inact, u), !.err = TRUE]

\* VoiceTracker.end_all_sessions
end_all_sessions(st, u, t) ==
  end_inactive_session(end_active_session(st, u, t), u, t)

\* VoiceTracker.start_active_session
start_active_session(st, m, v, s, t) ==
  IF st.err THEN st
  ELSE IF m[1] \notin DOMAIN st.act /\ is_user_active(v, s)
    THEN LET st1 == IF m[1] \in DOMAIN st.inact
                      THEN end_inactive_session(st, m[1], t) ELSE st
         IN IF st1.err THEN st1
            ELSE IF ~st1.ok THEN [st1 EXCEPT !.err = TRUE]
            ELSE [st1 EXCEPT
                    !.db = start_session(st1.db, m[1], m[2], v.channel, TRUE, t),
                    !.act = Put(st1.act, m[1], NextId(st1.db))]
    ELSE st

\* VoiceTracker.start_inactive_session
start_inactive_session(st, m, v, s, t) ==
  IF st.err THEN st
  ELSE IF m[1] \notin DOMAIN st.inact /\ v.channel # NoChannel
    THEN LET st1 == IF m[1] \in DOMAIN st.act
                      THEN end_active_session(st, m[1], t) ELSE st
         IN IF st1.err THEN st1
            ELSE IF ~st1.ok THEN [st1 EXCEPT !.err = TRUE]
            ELSE [st1 EXCEPT
                    !.db = start_session(st1.db, m[1], m[2], v.channel, FALSE, t),
                    !.inact = Put(st1.inact, m[1], NextId(st1.db))]
    ELSE st

\* The if/else of lines 212-216, 229-233 and 59-67
start_by_activity(st, m, v, s, t) ==
  IF is_user_active(v, s) THEN start_active_session(st, m, v, s, t)
  ELSE start_inactive_session(st, m, v, s, t)

\* VoiceTracker.on_voice_state_update; the member carries `after` and s
on_voice_state_update(st, m, before, after, s, t) ==
  IF before.channel = NoChannel /\ after.channel # NoChannel
    THEN start_by_activity(st, m, after, s, t)
  ELSE IF before.channel # NoChannel /\ after.channel = NoChannel
    THEN end_all_sessions(st, m[1], t)
  ELSE IF before.channel # after.channel /\ after.channel # NoChannel
    THEN start_by_activity(end_all_sessions(st, m[1], t), m, after, s, t)
  ELSE IF after.channel # NoChannel
          /\ (before.self_mute # after.self_mute \/ before.mute # after.mute)
    THEN IF after.self_mute \/ after.mute
           THEN start_inactive_session(end_active_session(st, m[1], t),
                                       m, after, s, t)
         ELSE IF is_user_active(after, s)
           THEN start_active_session(end_inactive_session(st, m[1], t),
                                     m, after, s, t)
         ELSE st
  ELSE st

\* VoiceTracker.on_presence_update; v is after.voice
on_presence_update(st, m, v, sBefore, sAfter, t) ==
  IF v.channel # NoChannel /\ sBefore # sAfter
    THEN IF sAfter \in AwayStatuses
           THEN start_inactive_session(end_active_session(st, m[1], t),
                                       m, v, sAfter, t)
         ELSE IF sBefore \in AwayStatuses /\ is_user_active(v, sAfter)
           THEN start_active_session(end_inactive_session(st, m[1], t),
                                     m, v, sAfter, t)
         ELSE st
  ELSE st

\* VoiceTracker.track_existing_users, over the members from position i on
RECURSIVE track_existing_users(_, _, _, _, _)
track_existing_users(st, i, vs, ss, t) ==
  IF i > Len(MemberOrder) THEN st
  ELSE LET m == MemberOrder[i]
       IN track_existing_users(
            IF vs[m].channel # NoChannel
              THEN start_by_activity(st, m, vs[m], ss[m], t) ELSE st,
            i + 1, vs, ss, t)

\* VoiceTracker.initialize: connect, import_from_json, track_existing_users
\* The store after line 40: json.load raises on a latest snapshot that does
\* not parse, and the upserts raise on a store that takes no writes.
imported(db, rows) ==
  IF store_ok /\ backup_readable THEN import_from_json(db, rows) ELSE db

\* An exception in import_from_json ends the initialize task before
\* track_existing_users is called.
initialize(db, rows, vs, ss, t) ==
  LET st == Tracker(db, EmptyMap, EmptyMap)
  IN IF st.ok /\ backup_readable
       THEN track_existing_users([st EXCEPT !.db = imported(db, rows)],
                                 1, vs, ss, t)
       ELSE [st EXCEPT !.err = TRUE]

\* One loop of daily_reset (lines 279-281 or 283-285) over a map, in the
\* dict's order, which is the order of session creation.
RECURSIVE close_items(_, _, _, _)
close_items(db, ids, t, ok) ==
  IF ids = {} THEN [db |-> db, left |-> {}]
  ELSE LET sid == Min(ids)
       IN IF HasId(db, sid) /\ ok
            THEN close_items(end_session(db, sid, t), ids \ {sid}, t, ok)
            ELSE [db |-> db, left |-> ids]

Range(f) == {f[x] : x \in DOMAIN f}
Restrict(f, ids) == [x \in {y \in DOMAIN f : f[y] \in ids} |-> f[x]]

\* VoiceTracker.daily_reset
daily_reset(st, t) ==
  LET a == close_items(st.db, Range(st.act), t, st.ok)
  IN IF a.left # {}
       THEN [st EXCEPT !.db = a.db, !.act = Restrict(st.act, a.left), !.err = TRUE]
     ELSE LET b == close_items(a.db, Range(st.inact), t, st.ok)
          IN IF b.left # {}
               THEN [st EXCEPT !.db = b.db, !.act = EmptyMap,
                               !.inact = Restrict(st.inact, b.left), !.err = TRUE]
             ELSE IF ~st.ok
               THEN [st EXCEPT !.act = EmptyMap, !.inact = EmptyMap, !.err = TRUE]
             ELSE [st EXCEPT !.db = cleanup_old_data(b.db, RetentionDays, t),
                             !.act = EmptyMap, !.inact = EmptyMap]

\* VoiceTracker.cog_unload: the maps are read, not popped; the export sees
\* the closed rows. An unknown id raises before the export.
cog_unload(st, t) ==
  LET a == close_items(st.db, Range(st.act), t, st.ok)
      b == close_items(a.db, Range(st.inact), t, st.ok)
  IN IF a.left # {} THEN [st EXCEPT !.db = a.db, !.err = TRUE]
     ELSE IF b.left # {} THEN [st EXCEPT !.db = b.db, !.err = TRUE]
     ELSE [st EXCEPT !.db = b.db]

\* VoiceTracker.voice_time: total_active_seconds and total_inactive_seconds
voice_time_active(db, act, u, g, t) ==
  get_user_time_for_date(db, u, g, Date(t), TRUE)
  + (IF u \in DOMAIN act THEN get_active_session_time(db, act[u], t) ELSE 0)

voice_time_inactive(db, inact, u, g, t) ==
  get_user_time_for_date(db, u, g, Date(t), FALSE)
  + (IF u \in DOMAIN inact THEN get_active_session_time(db, inact[u], t) ELSE 0)

\* VoiceDatabase.get_guild_stats: user -> SUM(duration_seconds) over the
\* user's sessions in the guild that started on start_date or later; a user
\* without such a session has no row in the result.
get_guild_stats(db, g, days, t) ==
  LET start_date == Date(t) - (days - 1)
      rows == {s \in db : s.guild = g /\ Date(s.start_time) >= start_date}
  IN [u \in {s.user : s \in rows} |-> SumDur({s \in rows : s.user = u})]

\* totals of a leaderboard that takes the requested days as they come
voice_stats_totals_unclamped(db, act, g, days, t) ==
  LET user_stats == get_guild_stats(db, g, days, t)
  IN [u \in DOMAIN user_stats |->
        user_stats[u]
        + (IF u \in DOMAIN act THEN get_active_session_time(db, act[u], t)
           ELSE 0)]

\* VoiceTracker.voice_stats, lines 406-417: total_seconds of every stat
voice_stats_totals(db, act, g, days, t) ==
  LET user_stats == get_guild_stats(db, g, Min({days, RetentionDays}), t)
  IN [u \in DOMAIN user_stats |->
        user_stats[u]
        + (IF u \in DOMAIN act THEN get_active_session_time(db, act[u], t)
           ELSE 0)]

\* VoiceTracker.voice_stats, line 419: the orders sorted() can return; equal
\* totals keep the order of the query, which SQL leaves open.
voice_stats(db, act, g, days, t) ==
  LET totals == voice_stats_totals(db, act, g, days, t)
      n == Cardinality(DOMAIN totals)
  IN {sorted_users \in [1..n -> DOMAIN totals] :
        /\ \A i, j \in 1..n : i # j => sorted_users[i] # sorted_users[j]
        /\ \A i, j \in 1..n :
             i < j => totals[sorted_users[i]] >= totals[sorted_users[j]]}

(* ------------------------ history bookkeeping ------------------------- *)
NoBegin == [cls |-> "none", n |-> 0]
\* a begin signal of classification c (a call of start_active_session or
\* start_inactive_session) following the signals recorded in lb
BeginSig(lb, c) ==
  IF lb.cls = c THEN [cls |-> c, n |-> IF lb.n < 2 THEN lb.n + 1 ELSE 2]
  ELSE [cls |-> c, n |-> 1]
\* an end signal of classification c
EndSig(lb, c) == IF lb.cls = c THEN NoBegin ELSE lb

\* the Classifier's name for what is_user_active tells of a connected member
ClassOf(v, s) == IF is_user_active(v, s) THEN "Active" ELSE "Inactive"

\* the signals on_voice_state_update sends, applied to the record lb
VoiceSignals(lb, before, after, s) ==
  IF before.channel = NoChannel /\ after.channel # NoChannel
    THEN BeginSig(lb, ClassOf(after, s))
  ELSE IF before.channel # NoChannel /\ after.channel = NoChannel
    THEN NoBegin
  ELSE IF before.channel # after.channel /\ after.channel # NoChannel
    THEN BeginSig(NoBegin, ClassOf(after, s))
  ELSE IF after.channel # NoChannel
          /\ (before.self_mute # after.self_mute \/ before.mute # after.mute)
    THEN IF after.self_mute \/ after.mute
           THEN BeginSig(EndSig(lb, "Active"), "Inactive")
         ELSE IF is_user_active(after, s)
           THEN BeginSig(EndSig(lb, "Inactive"), "Active")
         ELSE lb
  ELSE lb

\* the signals on_presence_update sends, applied to the record lb
PresenceSignals(lb, v, sBefore, sAfter) ==
  IF v.channel # NoChannel /\ sBefore # sAfter
    THEN IF sAfter \in AwayStatuses
           THEN BeginSig(EndSig(lb, "Active"), "Inactive")
         ELSE IF sBefore \in AwayStatuses /\ is_user_active(v, sAfter)
           THEN BeginSig(EndSig(lb, "Inactive"), "Active")
         ELSE lb
  ELSE lb

NoScen == [stage |-> 0, t0 |-> 0, t1 |-> 0, t2 |-> 0]
NoScens == [m \in Members |-> NoScen]

\* The key of member m is untouched: its user is in neither map and the key
\* has no session that started today.
Fresh(m) ==
  /\ m[1] \notin (DOMAIN active_sessions) \cup (DOMAIN inactive_sessions)
  /\ ~\E r \in VoiceSession :
        r.user = m[1] /\ r.guild = m[2] /\ Date(r.start_time) = Date(now)

Muted(v) == v.self_mute \/ v.mute

\* Progress of "connect while Active, mute, disconnect" for member m on a
\* voice event; every other event of the same user ends the scenario.
ScenStep(m, before, after, s) ==
  IF before.channel = NoChannel /\ is_user_active(after, s) /\ Fresh(m)
    THEN [stage |-> 1, t0 |-> now, t1 |-> 0, t2 |-> 0]
  ELSE IF scen[m].stage = 1 /\ after.channel = before.channel
          /\ ~Muted(before) /\ Muted(after)
    THEN [scen[m] EXCEPT !.stage = 2, !.t1 = now]
  ELSE IF scen[m].stage = 2 /\ after.channel = NoChannel
    THEN [scen[m] EXCEPT !.stage = 3, !.t2 = now]
  ELSE NoScen

(* ------------------------------- actions ------------------------------ *)
Init ==
  /\ now = 0
  /\ utc_offset \in UtcOffsets
  /\ phase = "running"
  /\ resetDue = FALSE
  /\ voice = [m \in Members |-> NoVoice]
  /\ status = [m \in Members |-> "online"]
  /\ VoiceSession = {}
  /\ store_ok = TRUE
  /\ classified = {}
  /\ afterReset = [m \in Members |-> FALSE]
  /\ backup_readable = TRUE
  /\ end_calls = <<>>
  /\ run_first_id = NextId(VoiceSession)
  /\ backup = {}
  /\ active_sessions = EmptyMap
  /\ inactive_sessions = EmptyMap
  /\ nEvents = 0
  /\ nStops = 0
  /\ lastBegin = [m \in Members |-> NoBegin]
  /\ connected_secs = [m \in Members |-> 0]
  /\ scen = NoScens

\* One tick of the wall clock. Reaching UTC midnight makes the daily_reset
\* loop due when the cog exists; it runs before anything else happens.
Tick ==
  /\ now < MaxTime
  /\ ~resetDue
  /\ now' = now + 1
  /\ resetDue' = (phase = "running" /\ TimeOfDay(now + 1) = utc_offset)
  /\ connected_secs' =
       [m \in Members |->
          IF phase = "running" /\ voice[m].channel # NoChannel
            THEN connected_secs[m] + 1 ELSE connected_secs[m]]
  /\ scen' = IF Date(now + 1) # Date(now) THEN NoScens ELSE scen
  /\ UNCHANGED <<afterReset, store_ok, classified, utc_offset, backup_readable, end_calls,
                 run_first_id, phase, voice, status, VoiceSession, backup,
                 active_sessions, inactive_sessions, nEvents, nStops, lastBegin>>

\* The gateway reports a new voice state of member m; the cog, when it
\* exists, runs on_voice_state_update.
VoiceStateUpdate(m, after) ==
  /\ nEvents < MaxEvents
  /\ ~resetDue
  /\ after \in VoiceChanges(voice[m])
  /\ nEvents' = nEvents + 1
  /\ afterReset' = [x \in Members |-> afterReset[x] /\ x[1] # m[1]]
  /\ voice' = [voice EXCEPT ![m] = after]
  /\ IF phase = "running"
       THEN LET st == on_voice_state_update(
                        Tracker(VoiceSession, active_sessions, inactive_sessions),
                        m, voice[m], after, status[m], now)
            IN /\ VoiceSession' = st.db
               /\ active_sessions' = st.act
               /\ inactive_sessions' = st.inact
               /\ lastBegin' = [lastBegin EXCEPT
                                  ![m] = VoiceSignals(@, voice[m], after, status[m])]
               /\ scen' = [x \in Members |->
                             IF x = m THEN ScenStep(m, voice[m], after, status[m])
                             ELSE IF x[1] = m[1] THEN NoScen ELSE scen[x]]
       ELSE UNCHANGED <<VoiceSession, active_sessions, inactive_sessions,
                        lastBegin, scen>>
  /\ UNCHANGED <<store_ok, classified, utc_offset, backup_readable, end_calls,
                 run_first_id, now, phase, resetDue, status, backup, nStops, connected_secs>>

\* The gateway reports a new presence status of member m; the cog, when it
\* exists, runs on_presence_update.
PresenceUpdate(m, s) ==
  /\ nEvents < MaxEvents
  /\ ~resetDue
  /\ s # status[m]
  /\ nEvents' = nEvents + 1
  /\ afterReset' = [x \in Members |-> afterReset[x] /\ x[1] # m[1]]
  /\ status' = [status EXCEPT ![m] = s]
  /\ IF phase = "running"
       THEN LET st == on_presence_update(
                        Tracker(VoiceSession, active_sessions, inactive_sessions),
                        m, voice[m], status[m], s, now)
            IN /\ VoiceSession' = st.db
               /\ active_sessions' = st.act
               /\ inactive_sessions' = st.inact
               /\ lastBegin' = [lastBegin EXCEPT
                                  ![m] = PresenceSignals(@, voice[m], status[m], s)]
               /\ scen' = [x \in Members |->
                             IF x[1] = m[1] THEN NoScen ELSE scen[x]]
       ELSE UNCHANGED <<VoiceSession, active_sessions, inactive_sessions,
                        lastBegin, scen>>
  /\ UNCHANGED <<store_ok, classified, utc_offset, backup_readable, end_calls,
                 run_first_id, now, phase, resetDue, voice, backup, nStops, connected_secs>>

\* main.on_disconnect: the bot loses the gateway and exports the tables
OnDisconnect ==
  /\ phase = "running"
  /\ nEvents < MaxEvents
  /\ ~resetDue
  /\ nEvents' = nEvents + 1
  /\ backup' = export_to_json(VoiceSession)
  /\ backup_readable' = TRUE
  /\ UNCHANGED <<afterReset, store_ok, classified, utc_offset, end_calls, run_first_id,
                 now, phase, resetDue, voice, status, VoiceSession,
                 active_sessions, inactive_sessions, nStops, lastBegin,
                 connected_secs, scen>>

\* The tasks.loop of daily_reset fires at midnight
DailyReset ==
  /\ phase = "running"
  /\ resetDue
  /\ LET st == daily_reset(
                 Tracker(VoiceSession, active_sessions, inactive_sessions), now)
     IN /\ VoiceSession' = st.db
        /\ active_sessions' = st.act
        /\ inactive_sessions' = st.inact
  /\ resetDue' = FALSE
  /\ afterReset' = [m \in Members |-> voice[m].channel # NoChannel]
  /\ lastBegin' = [m \in Members |-> NoBegin]
  /\ scen' = NoScens
  /\ UNCHANGED <<store_ok, classified, utc_offset, backup_readable, end_calls,
                 run_first_id, now, phase, voice, status, backup, nEvents, nStops,
                 connected_secs>>

\* The process dies (kill, power loss, sys.exit in the signal handler): the
\* maps are lost, voice_activity.db and the backup files stay on disk.
Crash ==
  /\ phase = "running"
  /\ nStops < MaxStops
  /\ nStops' = nStops + 1
  /\ phase' = "down"
  /\ resetDue' = FALSE
  /\ afterReset' = [m \in Members |-> FALSE]
  /\ active_sessions' = EmptyMap
  /\ inactive_sessions' = EmptyMap
  /\ lastBegin' = [m \in Members |-> NoBegin]
  /\ scen' = NoScens
  /\ UNCHANGED <<store_ok, classified, utc_offset, backup_readable, end_calls,
                 run_first_id, now, voice, status, VoiceSession, backup, nEvents,
                 connected_secs>>

\* The cog is unloaded (bot.close): cog_unload, then the process ends. A
\* behaviour is followed up to its clean shutdown and not beyond a restart
\* after it.
Unload ==
  /\ phase = "running"
  /\ ~resetDue
  /\ nStops' = nStops + 1
  /\ phase' = "stopped"
  /\ afterReset' = [m \in Members |-> FALSE]
  /\ LET st == cog_unload(
                 Tracker(VoiceSession, active_sessions, inactive_sessions), now)
     IN /\ VoiceSession' = st.db
        /\ backup' = IF st.err THEN backup ELSE export_to_json(st.db)
        /\ backup_readable' = (st.err => backup_readable)
  /\ active_sessions' = EmptyMap
  /\ inactive_sessions' = EmptyMap
  /\ lastBegin' = [m \in Members |-> NoBegin]
  /\ scen' = NoScens
  /\ UNCHANGED <<store_ok, classified, utc_offset, end_calls, run_first_id,
                 now, resetDue, voice, status, nEvents, connected_secs>>

\* The process starts: VoiceTracker.__init__ and the initialize task
Start ==
  /\ phase = "down"
  /\ phase' = "running"
  /\ run_first_id' = NextId(imported(VoiceSession, backup))
  /\ LET st == initialize(VoiceSession, backup, voice, status, now)
     IN /\ VoiceSession' = st.db
        /\ active_sessions' = st.act
        /\ inactive_sessions' = st.inact
  /\ lastBegin' = [m \in Members |->
                     IF voice[m].channel # NoChannel
                       THEN BeginSig(NoBegin, ClassOf(voice[m], status[m]))
                       ELSE NoBegin]
  /\ UNCHANGED <<afterReset, store_ok, classified, utc_offset, backup_readable, end_calls,
                 now, resetDue, voice, status, backup, nEvents, nStops,
                 connected_secs, scen>>

\* The store stops taking writes: another process holds the lock on
\* voice_activity.db, or the disk is full.
StoreFails ==
  /\ store_ok
  /\ store_ok' = FALSE
  /\ UNCHANGED <<now, utc_offset, phase, resetDue, voice, status, VoiceSession,
                 backup, active_sessions, inactive_sessions, nEvents, nStops,
                 lastBegin, connected_secs, scen, classified, afterReset,
                 backup_readable, end_calls, run_first_id>>

\* The store takes writes again
StoreRecovers ==
  /\ ~store_ok
  /\ store_ok' = TRUE
  /\ UNCHANGED <<now, utc_offset, phase, resetDue, voice, status, VoiceSession,
                 backup, active_sessions, inactive_sessions, nEvents, nStops,
                 lastBegin, connected_secs, scen, classified, afterReset,
                 backup_readable, end_calls, run_first_id>>

\* A caller asks is_user_active about member m; the answer is recorded
Classify(m) ==
  /\ classified' = classified \cup {<<m, is_user_active(voice[m], status[m])>>}
  /\ UNCHANGED <<now, utc_offset, phase, resetDue, voice, status, VoiceSession,
                 backup, active_sessions, inactive_sessions, nEvents, nStops,
                 lastBegin, connected_secs, scen, store_ok, afterReset,
                 backup_readable, end_calls, run_first_id>>

Next ==
  \/ Tick
  \/ \E m \in Members, after \in VoiceStates : VoiceStateUpdate(m, after)
  \/ \E m \in Members, s \in SeenStatuses : PresenceUpdate(m, s)
  \/ OnDisconnect
  \/ DailyReset
  \/ Crash
  \/ Unload
  \/ Start

Spec == Init /\ [][Next]_vars

\* One run of the process: the cog is never unloaded and never dies.
NextRun ==
  \/ Tick
  \/ \E m \in Members, after \in VoiceStates : VoiceStateUpdate(m, after)
  \/ \E m \in Members, s \in SeenStatuses : PresenceUpdate(m, s)
  \/ DailyReset

SpecRun == Init /\ [][NextRun]_vars

\* One run of the process on a store that can refuse writes
NextFault ==
  \/ NextRun
  \/ StoreFails
  \/ StoreRecovers

SpecFault == Init /\ [][NextFault]_vars

\* The members of guild g1 in any voice state and presence status, and the
\* classifier asked about them
InitClassifier ==
  /\ now = 0
  /\ utc_offset = 0
  /\ phase = "running"
  /\ resetDue = FALSE
  /\ voice \in {v \in [Members -> VoiceStates] : v[<<"u1", "g2">>] = NoVoice}
  /\ status \in {s \in [Members -> Statuses] : s[<<"u1", "g2">>] = "online"}
  /\ VoiceSession = {}
  /\ store_ok = TRUE
  /\ classified = {}
  /\ afterReset = [m \in Members |-> FALSE]
  /\ backup_readable = TRUE
  /\ end_calls = <<>>
  /\ run_first_id = NextId(VoiceSession)
  /\ backup = {}
  /\ active_sessions = EmptyMap
  /\ inactive_sessions = EmptyMap
  /\ nEvents = 0
  /\ nStops = 0
  /\ lastBegin = [m \in Members |-> NoBegin]
  /\ connected_secs = [m \in Members |-> 0]
  /\ scen = NoScens

NextClassifier == \E m \in Members : Classify(m)

SpecClassifier == InitClassifier /\ [][NextClassifier]_vars

\* The rows a voice_activity.db or a voice_backup_*.json left by earlier runs
\* can hold at time 1: open, or closed after one tick.
SnapshotRows ==
  {[id |-> i, user |-> m[1], guild |-> m[2], channel |-> "c1",
    start_time |-> 0, end_time |-> e, duration_seconds |-> e,
    is_active |-> a] :
     i \in 1..MaxSnapshotId, m \in {<<"u1", "g1">>, <<"u2", "g1">>},
     e \in {NULL, 1}, a \in BOOLEAN}
\* id is the primary key of the table and of the snapshot's list
Tables == {t \in SUBSET SnapshotRows : \A r1, r2 \in t : r1.id = r2.id => r1 = r2}

\* The process is about to start on any store and any latest snapshot, with
\* nobody in a voice channel.
InitImport ==
  /\ now = 1
  /\ utc_offset = 0
  /\ phase = "down"
  /\ resetDue = FALSE
  /\ voice = [m \in Members |-> NoVoice]
  /\ status = [m \in Members |-> "online"]
  /\ VoiceSession \in Tables
  /\ store_ok = TRUE
  /\ classified = {}
  /\ afterReset = [m \in Members |-> FALSE]
  /\ backup_readable = TRUE
  /\ end_calls = <<>>
  /\ run_first_id = NextId(VoiceSession)
  /\ backup \in Tables
  /\ active_sessions = EmptyMap
  /\ inactive_sessions = EmptyMap
  /\ nEvents = 0
  /\ nStops = 0
  /\ lastBegin = [m \in Members |-> NoBegin]
  /\ connected_secs = [m \in Members |-> 0]
  /\ scen = NoScens

NextImport == Start

SpecImport == InitImport /\ [][NextImport]_vars

\* The wall clock datetime.now() reads is set back: the end of daylight
\* saving time, or a step of the system clock.
ClockSetBack ==
  /\ nEvents < MaxEvents
  /\ now > 0
  /\ ~resetDue
  /\ nEvents' = nEvents + 1
  /\ now' = now - 1
  /\ scen' = IF Date(now - 1) # Date(now) THEN NoScens ELSE scen
  /\ UNCHANGED <<utc_offset, phase, resetDue, voice, status, VoiceSession,
                 store_ok, backup, active_sessions, inactive_sessions, nStops,
                 lastBegin, connected_secs, classified, afterReset,
                 backup_readable, end_calls, run_first_id>>

NextClock == NextRun \/ ClockSetBack

SpecClock == Init /\ [][NextClock]_vars

\* The latest voice_backup_*.json is left truncated or overwritten while the
\* bot is down: json.load will raise on it.
SnapshotCorrupted ==
  /\ phase = "down"
  /\ backup_readable
  /\ backup_readable' = FALSE
  /\ UNCHANGED <<now, utc_offset, phase, resetDue, voice, status, VoiceSession,
                 store_ok, backup, active_sessions, inactive_sessions, nEvents,
                 nStops, lastBegin, connected_secs, scen, classified, afterReset,
                 end_calls, run_first_id>>

NextCorrupt ==
  \/ Tick
  \/ \E m \in Members, after \in VoiceStates : VoiceStateUpdate(m, after)
  \/ Crash
  \/ SnapshotCorrupted
  \/ Start

SpecCorrupt == Init /\ [][NextCorrupt]_vars

\* A call of VoiceDatabase.end_session with any session id: get_by_id raises
\* DoesNotExist when the table has no row of that id.
EndSession(sid) ==
  /\ Len(end_calls) < MaxCloseCalls
  /\ IF HasId(VoiceSession, sid)
       THEN /\ VoiceSession' = end_session(VoiceSession, sid, now)
            /\ end_calls' = Append(end_calls, [id |-> sid, raised |-> FALSE])
       ELSE /\ VoiceSession' = VoiceSession
            /\ end_calls' = Append(end_calls, [id |-> sid, raised |-> TRUE])
  /\ UNCHANGED <<now, utc_offset, phase, resetDue, voice, status, store_ok,
                 backup, active_sessions, inactive_sessions, nEvents, nStops,
                 lastBegin, connected_secs, scen, classified, afterReset,
                 backup_readable, run_first_id>>

\* the ids a close can be asked for: those of the table and one it never held
CloseIds == 1..(MaxSnapshotId + 1)

\* The store holds any table of open and closed rows at time 2.
InitClose ==
  /\ now = 2
  /\ utc_offset = 0
  /\ phase = "running"
  /\ resetDue = FALSE
  /\ voice = [m \in Members |-> NoVoice]
  /\ status = [m \in Members |-> "online"]
  /\ VoiceSession \in Tables
  /\ store_ok = TRUE
  /\ classified = {}
  /\ afterReset = [m \in Members |-> FALSE]
  /\ backup_readable = TRUE
  /\ end_calls = <<>>
  /\ run_first_id = NextId(VoiceSession)
  /\ backup = {}
  /\ active_sessions = EmptyMap
  /\ inactive_sessions = EmptyMap
  /\ nEvents = 0
  /\ nStops = 0
  /\ lastBegin = [m \in Members |-> NoBegin]
  /\ connected_secs = [m \in Members |-> 0]
  /\ scen = NoScens

NextClose == \E sid \in CloseIds : EndSession(sid)

SpecClose == InitClose /\ [][NextClose]_vars

\* The first instant of the day after the retention window has filled: the
\* rollover of this instant is the first whose sweep has a row to delete.
SweepTime == (RetentionDays + 1) * DayLen
\* The rows voice_activity.db can hold at SweepTime: started on day 0 (before
\* the cutoff date), on day 1 (the cutoff date), on day 2 (the first day of a
\* 30-day leaderboard) or yesterday; closed after one tick, or left open by a
\* run that died.
SweepRow(i) ==
  {[id |-> i, user |-> m[1], guild |-> m[2], channel |-> "c1",
    start_time |-> st, end_time |-> IF open THEN NULL ELSE st + 1,
    duration_seconds |-> IF open THEN NULL ELSE 1, is_active |-> a] :
     m \in {<<"u1", "g1">>, <<"u2", "g1">>},
     st \in {0, DayLen, 2 * DayLen, SweepTime - 1}, open \in BOOLEAN,
     a \in BOOLEAN}
\* id is the primary key: one row for each id the table holds
SweepTables ==
  UNION {{{f[i] : i \in ids} :
            f \in {g \in [ids -> UNION {SweepRow(i) : i \in ids}] :
                     \A i \in ids : g[i].id = i}} :
           ids \in SUBSET (1..MaxSnapshotId)}

\* The cog runs with nobody in a voice channel and daily_reset is due.
InitSweep ==
  /\ now = SweepTime
  /\ utc_offset = 0
  /\ phase = "running"
  /\ resetDue = TRUE
  /\ voice = [m \in Members |-> NoVoice]
  /\ status = [m \in Members |-> "online"]
  /\ VoiceSession \in SweepTables
  /\ store_ok = TRUE
  /\ classified = {}
  /\ afterReset = [m \in Members |-> FALSE]
  /\ backup_readable = TRUE
  /\ end_calls = <<>>
  /\ run_first_id = NextId(VoiceSession)
  /\ backup = {}
  /\ active_sessions = EmptyMap
  /\ inactive_sessions = EmptyMap
  /\ nEvents = 0
  /\ nStops = 0
  /\ lastBegin = [m \in Members |-> NoBegin]
  /\ connected_secs = [m \in Members |-> 0]
  /\ scen = NoScens

NextSweep == DailyReset

SpecSweep == InitSweep /\ [][NextSweep]_vars

(* ------------------------------- claims ------------------------------- *)
\* the open rows of the key (u, g)
OpenOf(db, m) ==
  {r \in db : r.user = m[1] /\ r.guild = m[2] /\ r.end_time = NULL}
\* all rows of the key (u, g)
RowsOf(db, m) == {r \in db : r.user = m[1] /\ r.guild = m[2]}

\* the steps in which the cog runs a handler for member m
HandledStep == phase = "running" /\ phase' = "running"
JoinStep(m) ==
  HandledStep /\ voice[m].channel = NoChannel /\ voice'[m].channel # NoChannel
LeaveStep(m) ==
  HandledStep /\ voice[m].channel # NoChannel /\ voice'[m].channel = NoChannel
RolloverStep == HandledStep /\ resetDue /\ ~resetDue'
StartupStep == phase = "down" /\ phase' = "running"

\* C1 (No double-open): when a second begin signal of unchanged
\* classification is sent for the same (user, guild), the store and both
\* maps stay as they are and exactly one session of the key is open.
C1_NoDoubleOpen ==
  [][\A m \in Members :
       (lastBegin[m].n = 1 /\ lastBegin'[m].n = 2)
         => /\ VoiceSession' = VoiceSession
            /\ active_sessions' = active_sessions
            /\ inactive_sessions' = inactive_sessions
            /\ Cardinality(OpenOf(VoiceSession', m)) = 1]_vars

\* C2 (Steady-state mutual exclusion): after a voice-state, presence or
\* rollover handler has completed, every (user, guild) has at most one open
\* session, Active and Inactive counted together.
C2_AtMostOneOpen ==
  [][(HandledStep /\ (voice' # voice \/ status' # status \/ RolloverStep))
       => \A m \in Members : Cardinality(OpenOf(VoiceSession', m)) <= 1]_vars

\* The session the Classifier calls for: none for a member that is not
\* connected, exactly one of the member's classification otherwise.
FollowsClassifier(m) ==
  IF voice[m].channel = NoChannel THEN OpenOf(VoiceSession, m) = {}
  ELSE /\ Cardinality(OpenOf(VoiceSession, m)) = 1
       /\ \A r \in OpenOf(VoiceSession, m) :
            r.is_active = is_user_active(voice[m], status[m])

\* the instant at which the daily_reset loop fires for the first time
FirstReset == IF utc_offset = 0 THEN DayLen ELSE utc_offset

\* C3 (Tracked state follows the Classifier): while only join, leave, move,
\* mute and presence events have been handled (no termination, no rollover
\* yet), every member's open sessions are what the Classifier calls for.
C3_FollowsClassifier ==
  (phase = "running" /\ nStops = 0 /\ now < FirstReset)
    => \A m \in Members : FollowsClassifier(m)

\* C4 (Idempotent close): a leave of a member whose key has no open session
\* writes nothing to the store, and a second end_all_sessions after the
\* handler changes neither the store nor the maps.
C4_IdempotentClose ==
  [][\A m \in Members :
       LeaveStep(m)
         => /\ OpenOf(VoiceSession, m) = {} => VoiceSession' = VoiceSession
            /\ LET again == end_all_sessions(
                              Tracker(VoiceSession', active_sessions',
                                      inactive_sessions'), m[1], now')
               IN /\ again.db = VoiceSession'
                  /\ again.act = active_sessions'
                  /\ again.inact = inactive_sessions'
                  /\ ~again.err]_vars

\* C5 (begin is keyed by (user, guild)): a join of member m opens a session
\* for m's key unless a session of m's classification is already open for
\* that same key, and the only sessions it closes are sessions of m's key.
C5_BeginKeyedByGuild ==
  [][\A m \in Members :
       JoinStep(m)
         => /\ (~\E r \in OpenOf(VoiceSession, m) :
                   r.is_active = is_user_active(voice'[m], status[m]))
               => \E r \in OpenOf(VoiceSession', m) :
                    /\ r \notin VoiceSession
                    /\ r.is_active = is_user_active(voice'[m], status[m])
            /\ \A r \in VoiceSession :
                 (r.end_time = NULL /\ r \notin VoiceSession')
                   => (r.user = m[1] /\ r.guild = m[2])]_vars

\* C6 (end_all frame): a leave of member m in guild G1 leaves every row of
\* any other (user, guild), and its entry in the maps, as it was.
C6_EndAllFrame ==
  [][\A m \in Members :
       LeaveStep(m)
         => \A r \in VoiceSession :
              (r.user # m[1] \/ r.guild # m[2])
                => /\ r \in VoiceSession'
                   /\ \A u \in DOMAIN active_sessions :
                        active_sessions[u] = r.id
                          => (u \in DOMAIN active_sessions'
                              /\ active_sessions'[u] = r.id)
                   /\ \A u \in DOMAIN inactive_sessions :
                        inactive_sessions[u] = r.id
                          => (u \in DOMAIN inactive_sessions'
                              /\ inactive_sessions'[u] = r.id)]_vars

RECURSIVE SumElapsed(_, _)
\* the live elapsed time (now - start_time) of a set of open rows
SumElapsed(rows, t) ==
  IF rows = {} THEN 0
  ELSE LET r == CHOOSE x \in rows : TRUE
       IN (t - r.start_time) + SumElapsed(rows \ {r}, t)

\* the time accounted to the key of m: closed durations plus live elapsed
Accounted(m) ==
  SumDur(RowsOf(VoiceSession, m) \ OpenOf(VoiceSession, m))
  + SumElapsed(OpenOf(VoiceSession, m), now)

\* C7 (Conservation): within one run of the process, the closed durations of
\* a member plus the live elapsed time of its open session equal the time the
\* member has spent connected.
C7_Conservation ==
  nStops = 0 => \A m \in Members : Accounted(m) = connected_secs[m]

\* the rows of m's key that started today
TodayOf(m) == {r \in RowsOf(VoiceSession, m) : Date(r.start_time) = Date(now)}

C9_RolloverClosesAll ==
  [][RolloverStep => \A r \in VoiceSession' : r.end_time # NULL]_vars

\* C10 (Recovery creates no duplicate): when the startup pass has completed,
\* every connected member has exactly one open session in the store.
C10_RecoveryNoDuplicate ==
  [][StartupStep
       => \A m \in Members :
            voice[m].channel # NoChannel
              => Cardinality(OpenOf(VoiceSession', m)) = 1]_vars

\* voice_time: the total the command reports for member m today
voice_time_total(db, act, inact, m, t) ==
  voice_time_active(db, act, m[1], m[2], t)
  + voice_time_inactive(db, inact, m[1], m[2], t)

\* C11 (Elapsed time survives a restart): when the process starts while a
\* member is connected whose session, begun today at S, was left open by the
\* previous run, voice_time right after the startup pass reports at least
\* now - S for the member.
C11_ElapsedSurvivesRestart ==
  [][StartupStep
       => \A m \in Members : \A r \in OpenOf(VoiceSession, m) :
            (voice[m].channel # NoChannel /\ Date(r.start_time) = Date(now))
              => voice_time_total(VoiceSession', active_sessions',
                                  inactive_sessions', m, now')
                   >= now - r.start_time]_vars

\* the step in which the cog is unloaded
UnloadStep == phase = "running" /\ phase' = "stopped"

\* C16 (Clean shutdown): when cog_unload has run, every session that was
\* open in the store is closed with end_time = now and a duration reaching
\* from its start to now, no session is open, and the exported snapshot is
\* the store with those sessions closed.
C16_CleanShutdown ==
  [][UnloadStep
       => /\ \A r \in VoiceSession :
               r.end_time = NULL
                 => [r EXCEPT !.end_time = now,
                              !.duration_seconds = now - r.start_time]
                      \in VoiceSession'
          /\ \A r \in VoiceSession' : r.end_time # NULL
          /\ backup' = VoiceSession']_vars

\* C12 (A closed session is immutable): no step changes a row whose end_time
\* is set; the only thing that can happen to it is its deletion by the
\* retention sweep of a rollover pass, once it is older than the window.
C12_ClosedImmutable ==
  [][\A r \in VoiceSession :
       r.end_time # NULL
         => \/ r \in VoiceSession'
            \/ /\ ~HasId(VoiceSession', r.id)
               /\ RolloverStep
               /\ Date(r.start_time) < Date(now) - RetentionDays]_vars

\* C12 witness: a session was closed, and after that another session was
\* begun and closed at a later instant
C12_ClosedImmutable_Witness ==
  \E r, r2 \in VoiceSession :
    /\ r.end_time # NULL /\ r2.end_time # NULL
    /\ r.id < r2.id /\ r.end_time < r2.end_time

\* what row r adds to the total voice_time reports for member m
Contribution(r, m) ==
  voice_time_total(VoiceSession, active_sessions, inactive_sessions, m, now)
  - voice_time_total(VoiceSession \ {r}, active_sessions, inactive_sessions,
                     m, now)

\* C13 (Day attribution): once the rollover of the day has run, a session
\* whose start_time lies on another calendar day than today, closed or still
\* open, adds nothing to what voice_time reports for today.
C13_DayAttribution ==
  (phase = "running" /\ ~resetDue)
    => \A m \in Members : \A r \in VoiceSession :
         Date(r.start_time) # Date(now) => Contribution(r, m) = 0

\* the look-back windows asked of the leaderboard
StatDays == {1, 2, 7}

\* the total the leaderboard is to show for user u in guild g: the closed
\* durations of the window plus the live elapsed time of the open sessions
LeaderTotal(u, g, days) ==
  LET rows == {r \in RowsOf(VoiceSession, <<u, g>>) :
                 Date(r.start_time) >= Date(now) - (days - 1)}
  IN SumDur({r \in rows : r.end_time # NULL})
     + SumElapsed({r \in rows : r.end_time = NULL}, now)

\* C14 (Leaderboard): every order voice_stats can return is by non-increasing
\* total, and the total of each user listed is the closed durations of the
\* window plus the live elapsed time of the user's open sessions in the
\* guild, Active or Inactive.
C14_Leaderboard ==
  phase = "running"
    => \A g \in Guilds, days \in StatDays :
         LET totals == voice_stats_totals(VoiceSession, active_sessions,
                                          g, days, now)
         IN /\ \A b \in voice_stats(VoiceSession, active_sessions, g, days, now) :
                 \A i, j \in DOMAIN b : i < j => totals[b[i]] >= totals[b[j]]
            /\ \A u \in DOMAIN totals : totals[u] = LeaderTotal(u, g, days)

\* C15 (Snapshot import is idempotent): the import of the startup pass, done
\* a second time with the same snapshot, changes nothing; every row the store
\* had is still there unchanged, every other row comes from the snapshot
\* under an id the store did not have, and no id occurs twice.
C15_ImportIdempotent ==
  [][StartupStep
       => LET once == import_from_json(VoiceSession, backup)
          IN /\ import_from_json(once, backup) = once
             /\ \A r \in VoiceSession : r \in once
             /\ \A r \in once :
                  r \in VoiceSession
                  \/ (r \in backup /\ ~HasId(VoiceSession, r.id))
             /\ \A r1, r2 \in once : r1.id = r2.id => r1 = r2
             /\ \A r \in once : r \in VoiceSession']_vars

\* C15 witness: the process has started on a snapshot that holds a row of
\* its own under an id of the store, which the store's row has won, and a
\* row whose id the store lacked, which was imported.
C15_ImportIdempotent_Witness ==
  /\ phase = "running" /\ nEvents = 0 /\ nStops = 0
  /\ \E r \in backup : r \notin VoiceSession /\ HasId(VoiceSession, r.id)
  /\ \E r \in backup : r \in VoiceSession /\ r.id = MaxSnapshotId
  /\ \E r \in VoiceSession : r \notin backup

\* the Classifier's rule, in its order
Classification(connected, self_muted, server_muted, s) ==
  IF ~connected THEN "Disconnected"
  ELSE IF self_muted \/ server_muted THEN "Inactive"
  ELSE IF s \in {"idle", "invisible", "offline"} THEN "Inactive"
  ELSE "Active"

\* C17 (Classifier truth table): whenever is_user_active answers about a
\* member, the answer is true exactly when the rule classifies the member's
\* connection, mute flags and status as Active, and the call changes neither
\* the member's state nor the store, the snapshot or the maps.
C17_ClassifierTable ==
  [][\A m \in Members, b \in BOOLEAN :
       (<<m, b>> \in classified' /\ <<m, b>> \notin classified)
         => /\ b = (Classification(voice[m].channel # NoChannel,
                                   voice[m].self_mute, voice[m].mute,
                                   status[m]) = "Active")
            /\ UNCHANGED <<voice, status, VoiceSession, backup,
                           active_sessions, inactive_sessions>>]_vars

\* C17 witness: the classifier has answered true for a member in do-not-
\* disturb, false for a server-muted member, false for an unmuted invisible
\* member and false for a member that is not connected.
C17_ClassifierTable_Witness ==
  \E m1, m2 \in Members :
    /\ <<m1, TRUE>> \in classified /\ status[m1] = "dnd"
    /\ <<m2, FALSE>> \in classified /\ voice[m2].channel # NoChannel
    /\ \/ (voice[m2].mute /\ ~voice[m2].self_mute /\ status[m2] = "online")
       \/ (~Muted(voice[m2]) /\ status[m2] = "invisible")
    /\ <<(<<"u1", "g2">>), FALSE>> \in classified
    /\ voice[<<"u1", "g2">>].channel = NoChannel

\* the row of session id sid is in the table db and closed
ClosedIn(db, sid) == \E r \in db : r.id = sid /\ r.end_time # NULL
\* the row of session id sid is in the table db and open
OpenIn(db, sid) == \E r \in db : r.id = sid /\ r.end_time = NULL

\* C18 (Write before index): in every step of the cog, an id that leaves a
\* map has been closed in the store, and an id that enters a map has been
\* created in the store, also when the store refuses the write.
C18_WriteBeforeIndex ==
  [][HandledStep
       => /\ \A sid \in Range(active_sessions) \cup Range(inactive_sessions) :
               sid \notin Range(active_sessions') \cup Range(inactive_sessions')
                 => ClosedIn(VoiceSession', sid)
          /\ \A sid \in Range(active_sessions') \cup Range(inactive_sessions') :
               sid \notin Range(active_sessions) \cup Range(inactive_sessions)
                 => OpenIn(VoiceSession', sid)]_vars

\* C19 (Tracking continues after a rollover): for a member that was
\* connected when daily_reset ran and whose user has had no event since,
\* every second that passes within the day adds one second to what
\* voice_time reports for the member today.
C19_TrackedAfterRollover ==
  [][\A m \in Members :
       (afterReset[m] /\ afterReset'[m] /\ phase = "running"
        /\ now' = now + 1 /\ Date(now') = Date(now))
         => voice_time_total(VoiceSession', active_sessions',
                             inactive_sessions', m, now')
              = voice_time_total(VoiceSession, active_sessions,
                                 inactive_sessions, m, now) + 1]_vars

\* C20 (Rollover action order): when a rollover pass has completed, the
\* open sessions have been closed, the sessions older than the retention
\* window are gone, and the latest snapshot is an export of the store as the
\* pass has left it.
C20_RolloverPersists ==
  [][RolloverStep
       => /\ \A sid \in Range(active_sessions) \cup Range(inactive_sessions) :
               ~OpenIn(VoiceSession', sid)
          /\ \A r \in VoiceSession' :
               ~(Date(r.start_time) < Date(now) - RetentionDays)
          /\ backup' = export_to_json(VoiceSession')]_vars

\* C22 (Stale sessions are resolved at recovery): when the startup pass has
\* completed, no session is open in the store for a member that is not
\* connected.
C22_StaleResolved ==
  [][StartupStep
       => \A m \in Members :
            voice[m].channel = NoChannel => OpenOf(VoiceSession', m) = {}]_vars

\* C21 (Retention sweep scope): a row the rollover pass deletes is closed and
\* started more than RetentionDays days before the current date.
C21_SweepScope ==
  [][RolloverStep
       => \A r \in VoiceSession :
            ~HasId(VoiceSession', r.id)
              => /\ r.end_time # NULL
                 /\ Date(r.start_time) < Date(now) - RetentionDays]_vars

\* the numbers of days asked of !voicestats
StatWindows == {1, 30, 31, 60}
Closed(db) == {r \in db : r.end_time # NULL}

\* C29 (Leaderboard window lies inside the retention window): a rollover pass
\* leaves the total of every leaderboard query over the sessions closed
\* before it as it was, for every guild and every requested number of days.
C29_WindowInsideRetention ==
  [][RolloverStep
       => \A g \in Guilds, n \in StatWindows :
            voice_stats_totals(Closed(VoiceSession) \cap VoiceSession',
                               EmptyMap, g, n, now)
              = voice_stats_totals(Closed(VoiceSession), EmptyMap, g, n, now)]_vars

\* the rollover has run on a store that holds a closed session of the first
\* day of the 30-day leaderboard and one of the cutoff date, and none older
C29_WindowInsideRetention_Witness ==
  /\ now = SweepTime /\ ~resetDue /\ phase = "running"
  /\ \E r \in Closed(VoiceSession) : Date(r.start_time) = Date(now) - 29
  /\ \E r \in Closed(VoiceSession) : Date(r.start_time) = Date(now) - RetentionDays
  /\ \A r \in VoiceSession : Date(r.start_time) >= Date(now) - RetentionDays

\* C23 (Close-before-open): no store state has both an Active and an Inactive
\* session open for the same user.
C23_CloseBeforeOpen ==
  \A r1, r2 \in VoiceSession :
    (r1.end_time = NULL /\ r2.end_time = NULL /\ r1.user = r2.user)
      => r1.is_active = r2.is_active

\* C27 (Non-negative durations): every closed session has
\* end_time >= start_time and duration_seconds >= 0.
C27_NonNegativeDuration ==
  \A r \in VoiceSession :
    r.end_time # NULL => (r.end_time >= r.start_time /\ r.duration_seconds >= 0)

\* C25 (Unreadable snapshot is non-fatal): when the process starts on a
\* latest snapshot that does not parse, the startup pass still gives every
\* connected member a session held in one of the two maps.
C25_CorruptSnapshotNonFatal ==
  [][(StartupStep /\ ~backup_readable)
       => \A m \in Members :
            voice[m].channel # NoChannel
              => m[1] \in DOMAIN active_sessions' \cup DOMAIN inactive_sessions']_vars

\* C26 (Missing session on close): a call of end_session for an id that the
\* store does not hold, or holds closed, raises nothing and leaves every row
\* as it was.
C26_MissingCloseNoOp ==
  [][\A sid \in CloseIds :
       (/\ Len(end_calls') = Len(end_calls) + 1
        /\ end_calls'[Len(end_calls')].id = sid
        /\ ~OpenIn(VoiceSession, sid))
         => (VoiceSession' = VoiceSession /\ ~end_calls'[Len(end_calls')].raised)]_vars

\* C28 (Index and store agree within one run): while the cog runs, every id
\* in active_sessions is an open Active session of that user in the store,
\* every id in inactive_sessions is an open Inactive session of that user,
\* and every open session this run created is held in one of the two maps.
C28_IndexAgreesWithStore ==
  phase = "running"
    => /\ \A u \in DOMAIN active_sessions :
            \E r \in VoiceSession :
              /\ r.id = active_sessions[u] /\ r.user = u
              /\ r.end_time = NULL /\ r.is_active
       /\ \A u \in DOMAIN inactive_sessions :
            \E r \in VoiceSession :
              /\ r.id = inactive_sessions[u] /\ r.user = u
              /\ r.end_time = NULL /\ ~r.is_active
       /\ \A r \in VoiceSession :
            (r.end_time = NULL /\ r.id >= run_first_id)
              => r.id \in Range(active_sessions) \cup Range(inactive_sessions)

\* a restarted run holds an Active and an Inactive session in its maps, next
\* to an open session of the run before it
C28_IndexAgreesWithStore_Witness ==
  /\ phase = "running" /\ nStops = 1
  /\ DOMAIN active_sessions # {} /\ DOMAIN inactive_sessions # {}
  /\ \E r \in VoiceSession : r.end_time = NULL /\ r.id < run_first_id
  /\ \E r \in VoiceSession : r.end_time # NULL

====
